---- MODULE Spec2Model ----
(***************************************************************************)
(* A model of the prediction-market aggregator, prediction_aggregator.py:  *)
(* the two source adapters (fetch_manifold, fetch_polymarket),             *)
(* aggregate_markets (fetch loop, liquidity filter, volume sort, top-n     *)
(* truncation) and main (the snapshot, its emission, the exit status);     *)
(* of RustChainClient.ping (rustchain_sdk); and of BeaconAgent             *)
(* (beacon_integration/agent.py): its task queue and run_loop coroutines.  *)
(*                                                                         *)
(* Python values are tagged records: None, numbers, strings, lists and     *)
(* dicts.  A dict is a record "f" holding exactly the keys it has, so a    *)
(* key that is absent and a key that is null are different inputs.         *)
(* Numbers are integers (JSON floats are scaled to integers).              *)
(***************************************************************************)
EXTENDS Integers, Sequences, FiniteSets, TLC

(***************************************************************************)
(* Bounds of the model.                                                    *)
(***************************************************************************)
\* longest list of requested sources given to aggregate_markets
MaxSources == 3
\* most records (Manifold) or events (Polymarket) in one upstream response
MaxRecords == 2
\* most markets bundled in one Polymarket event
MaxSubMarkets == 3
\* longest market list handed to the filter/sort/truncate pipeline alone
MaxMarkets == 3
\* most tasks given to one BeaconAgent
MaxTasks == 3
\* most run_loop calls made on one BeaconAgent
MaxLoops == 2
\* highest priority given to a task (the lowest is 0)
MaxPriority == 1

(***************************************************************************)
(* Python values.                                                          *)
(***************************************************************************)
PyNone == [t |-> "none"]
PyNum(n) == [t |-> "num", n |-> n]
PyStr(s) == [t |-> "str", s |-> s]
PyList(items) == [t |-> "list", items |-> items]
PyDict(f) == [t |-> "dict", f |-> f]
\* the outcome of an expression that raises an exception
Raised == [t |-> "raise"]

\* dict.get(key, default); calling .get on a value that is not a dict raises
\* AttributeError
Get(d, key, default) ==
    IF d.t # "dict" THEN Raised
    ELSE IF key \in DOMAIN d.f THEN d.f[key] ELSE default

\* Python truthiness, as used by `x or y` and `not x`
Truthy(x) ==
    CASE x.t = "none" -> FALSE
      [] x.t = "num"  -> x.n # 0
      [] x.t = "str"  -> x.s # ""
      [] x.t = "list" -> Len(x.items) > 0
      [] x.t = "dict" -> DOMAIN x.f # {}
      [] OTHER        -> TRUE

\* x or y
Or(x, y) == IF Truthy(x) THEN x ELSE y

\* the strings float() parses, with their values
NumericStr == ("0" :> 0) @@ ("1" :> 1) @@ ("2" :> 2) @@ ("7" :> 7)

\* float(x): a number is kept, a numeric string is parsed, a non-numeric
\* string raises ValueError, anything else raises TypeError
Float(x) ==
    CASE x.t = "num" -> x
      [] x.t = "str" -> IF x.s \in DOMAIN NumericStr
                        THEN PyNum(NumericStr[x.s]) ELSE Raised
      [] OTHER       -> Raised

\* float(x) if x is not None else None
OptFloat(x) == IF x = PyNone THEN PyNone ELSE Float(x)

\* str.lower() on the type markers the upstream uses
LowerTable ==
    ("BINARY" :> "binary") @@ ("MULTIPLE_CHOICE" :> "multiple_choice")
    @@ ("" :> "")

Lower(x) ==
    IF x.t # "str" THEN Raised
    ELSE IF x.s \in DOMAIN LowerTable THEN PyStr(LowerTable[x.s]) ELSE x

\* str(x)
Str(x) ==
    CASE x.t = "str"  -> x
      [] x.t = "none" -> PyStr("None")
      [] x.t = "num"  -> PyStr(ToString(x.n))
      [] OTHER        -> PyStr("<object>")

\* any operand raised
AnyRaised(S) == Raised \in S

RECURSIVE SetToSeq(_)
SetToSeq(S) ==
    IF S = {} THEN <<>>
    ELSE LET x == CHOOSE y \in S : TRUE IN <<x>> \o SetToSeq(S \ {x})

\* whether `for x in v` and len(v) work on v (TypeError otherwise)
Iterable(v) == v.t \in {"list", "dict", "str"}

\* `for x in v`: the sequence a for loop walks.  A dict yields its keys and a
\* string its characters, both strings; a non-empty string is walked as one
\* string element, which is all the adapters can tell (they call .get on the
\* first element).
Iter(v) ==
    CASE v.t = "list" -> v.items
      [] v.t = "dict" -> [k \in 1..Cardinality(DOMAIN v.f) |->
                             PyStr(SetToSeq(DOMAIN v.f)[k])]
      [] v.t = "str"  -> IF v.s = "" THEN <<>> ELSE <<v>>
      [] OTHER        -> <<>>

\* len(v), or Raised (TypeError)
PyLen(v) == IF Iterable(v) THEN PyNum(Len(Iter(v))) ELSE Raised

LastItem(v) ==
    CASE v.t = "list" /\ Len(v.items) > 0 -> v.items[Len(v.items)]
      [] v.t = "str" /\ v.s # ""          -> v
      [] OTHER                            -> Raised

\* v[0], or Raised (IndexError, KeyError, TypeError)
First(v) ==
    CASE v.t = "list" /\ Len(v.items) > 0 -> v.items[1]
      [] v.t = "str" /\ v.s # ""          -> v
      [] OTHER                            -> Raised

(***************************************************************************)
(* Market, the dataclass.  question, url, created_at and close_time are    *)
(* left out: no step of the aggregation reads them.                        *)
(***************************************************************************)
MarketOddsUnset(source, id, outcome_type, prob, volume_24h, liquidity) ==
    [source |-> source, id |-> id, outcome_type |-> outcome_type,
     probability |-> prob, implied_odds |-> PyNone,
     volume_24h |-> volume_24h, liquidity |-> liquidity]

Market(source, id, outcome_type, prob, volume_24h, liquidity) ==
    [source |-> source, id |-> id, outcome_type |-> outcome_type,
     probability |-> prob, implied_odds |-> prob,
     volume_24h |-> volume_24h, liquidity |-> liquidity]

\* what an adapter call gives: the list it returns, or an exception.  When it
\* raises, `markets` holds the Markets its loop had built so far (the local
\* list that is lost with the exception).
Returned(markets) == [ok |-> TRUE, markets |-> markets]
Failed(partial) == [ok |-> FALSE, markets |-> partial]

(***************************************************************************)
(* fetch_manifold                                                          *)
(***************************************************************************)
\* the Market built from one record of the response, or Raised
ManifoldMarket(m) ==
    LET ot   == Get(m, "outcomeType", PyNone)
        prob == IF ot = PyStr("BINARY") THEN Get(m, "probability", PyNone)
                ELSE PyNone
        id   == Get(m, "id", PyStr(""))
        low  == Lower(Or(ot, PyStr("")))
        vol  == OptFloat(Get(m, "volume24Hours", PyNone))
        liq  == OptFloat(Get(m, "elasticity", PyNone))
    IN  IF m.t # "dict" \/ AnyRaised({low, vol, liq}) THEN Raised
        ELSE Market(PyStr("manifold"), id, low, prob, vol, liq)

RECURSIVE ManifoldLoop(_, _, _)
ManifoldLoop(items, k, markets) ==
    IF k > Len(items) THEN Returned(markets)
    ELSE LET mk == ManifoldMarket(items[k])
         IN  IF mk = Raised THEN Failed(markets)
             ELSE ManifoldLoop(items, k + 1, Append(markets, mk))

\* resp is the parsed response body, or Raised when the request, the read or
\* the JSON parse raised
fetch_manifold(resp) ==
    IF resp = Raised \/ ~Iterable(resp) THEN Failed(<<>>)
    ELSE ManifoldLoop(Iter(resp), 1, <<>>)

(***************************************************************************)
(* fetch_polymarket                                                        *)
(***************************************************************************)
\* best_volume before the first market of an event is looked at
InitialBestVolume == -1

\* float(m.get("volume", 0) or 0.0)
SelectionVolume(m) == Float(Or(Get(m, "volume", PyNum(0)), PyNum(0)))

\* a tie for the highest volume resolved for the market seen last
BetterOrEqual(vol, best_volume) == vol >= best_volume

\* if vol > best_volume: a market replaces the best one only when strictly
\* higher
Better(vol, best_volume) == vol > best_volume

\* the inner loop: whether it raised, and best_market after markets k..
RECURSIVE BestMarketLoop(_, _, _, _)
BestMarketLoop(ms, k, best_market, best_volume) ==
    IF k > Len(ms)
    THEN [raised |-> FALSE, best_market |-> best_market]
    ELSE LET vol == SelectionVolume(ms[k])
         IN  IF vol = Raised
             THEN [raised |-> TRUE, best_market |-> best_market]
             ELSE IF Better(vol.n, best_volume)
                  THEN BestMarketLoop(ms, k + 1, ms[k], vol.n)
                  ELSE BestMarketLoop(ms, k + 1, best_market, best_volume)

\* one pass of the loop over events: a Market, Skip (`continue`), or Raised
Skip == [t |-> "skip"]

PolymarketMarket(e) ==
    LET slug == Or(Or(Get(e, "slug", PyNone), Get(e, "id", PyNone)), PyStr(""))
        msv  == Or(Get(e, "markets", PyNone), PyList(<<>>))
        ms   == Iter(msv)
        sel  == BestMarketLoop(ms, 1, PyNone, InitialBestVolume)
        best == sel.best_market
        prices == Or(Get(best, "prices", PyNone), PyList(<<>>))
        prob == IF Truthy(prices)
                THEN (IF First(prices) = Raised THEN Raised
                      ELSE Float(First(prices)))
                ELSE PyNone
        n    == PyLen(prices)
        ot   == IF n = PyNum(2) THEN PyStr("binary") ELSE PyStr("multi")
        vol  == OptFloat(Get(best, "volume", PyNone))
        liq  == OptFloat(Get(best, "liquidity", PyNone))
    IN  IF e.t # "dict" \/ slug.t # "str" \/ ~Iterable(msv) THEN Raised
        ELSE IF sel.raised THEN Raised
        ELSE IF ~Truthy(best) THEN Skip
        ELSE IF AnyRaised({prob, n, vol, liq}) THEN Raised
        ELSE Market(PyStr("polymarket"), Str(Get(best, "id", PyNone)),
                    ot, prob, vol, liq)

RECURSIVE PolymarketLoop(_, _, _)
PolymarketLoop(events, k, markets) ==
    IF k > Len(events) THEN Returned(markets)
    ELSE LET mk == PolymarketMarket(events[k])
         IN  IF mk = Raised THEN Failed(markets)
             ELSE IF mk = Skip
                  THEN PolymarketLoop(events, k + 1, markets)
                  ELSE PolymarketLoop(events, k + 1, Append(markets, mk))

\* the events of a response: the list itself, or data.get("events") or []
Events(data) ==
    IF data.t = "list" THEN data
    ELSE IF data.t # "dict" THEN Raised
    ELSE Or(Get(data, "events", PyNone), PyList(<<>>))

fetch_polymarket(resp) ==
    IF resp = Raised \/ Events(resp) = Raised \/ ~Iterable(Events(resp))
    THEN Failed(<<>>)
    ELSE PolymarketLoop(Iter(Events(resp)), 1, <<>>)

(***************************************************************************)
(* _to_iso (lines 159-183).  A timestamp in milliseconds does not fit one  *)
(* integer of the checker, so it is held split in days and milliseconds    *)
(* of the day: PyMillis(d, r) is the number d * MsPerDay + r with          *)
(* 0 <= r < MsPerDay.  A datetime is the day number since 1970-01-01 and    *)
(* the second of the day, with the UTC offset in minutes when it has one.  *)
(***************************************************************************)
MsPerDay == 86400000

SecPerDay == 86400

PyMillis(d, r) == [t |-> "num", days |-> d, ms |-> r]

\* a float that is not finite: "nan" or "inf"
PyFloat(v) == [t |-> "float", v |-> v]

PyBool(b) == [t |-> "bool", b |-> b]

\* datetime.min and datetime.max as day numbers: 0001-01-01 and 9999-12-31
MinDay == -719162

MaxDay == 2932896

\* the civil date of a day number (proleptic Gregorian calendar)
Civil(days) ==
    LET z   == days + 719468
        era == z \div 146097
        doe == z - era * 146097
        yoe == (doe - doe \div 1460 + doe \div 36524 - doe \div 146096) \div 365
        doy == doe - (365 * yoe + yoe \div 4 - yoe \div 100)
        mp  == (5 * doy + 2) \div 153
        m   == IF mp < 10 THEN mp + 3 ELSE mp - 9
    IN  [year  |-> yoe + era * 400 + (IF m <= 2 THEN 1 ELSE 0),
         month |-> m,
         day   |-> doy - (153 * mp + 2) \div 5 + 1]

\* the day number of a civil date
DaysFromCivil(year, month, day) ==
    LET y   == IF month <= 2 THEN year - 1 ELSE year
        era == y \div 400
        yoe == y - era * 400
        doy == (153 * (IF month > 2 THEN month - 3 ELSE month + 9) + 2) \div 5
                   + day - 1
    IN  era * 146097 + yoe * 365 + yoe \div 4 - yoe \div 100 + doy - 719468

IsLeap(y) == y % 4 = 0 /\ (y % 100 # 0 \/ y % 400 = 0)

DaysInMonth(y, m) ==
    IF m = 2 THEN (IF IsLeap(y) THEN 29 ELSE 28)
    ELSE IF m \in {4, 6, 9, 11} THEN 30 ELSE 31

\* float(ts_ms_or_iso) (line 179): the number itself, 1.0 or 0.0 for a
\* boolean, Raised (TypeError) for a list or an object
TimestampFloat(x) ==
    CASE x.t = "num" /\ "n" \in DOMAIN x ->
             PyMillis(x.n \div MsPerDay, x.n % MsPerDay)
      [] x.t = "num"   -> x
      [] x.t = "bool"  -> PyMillis(0, IF x.b THEN 1 ELSE 0)
      [] x.t = "float" -> x
      [] OTHER         -> Raised

\* datetime.fromtimestamp(ts_ms / 1000.0, tz=timezone.utc) (line 180):
\* Raised (ValueError, OverflowError) for nan, inf and a time outside
\* datetime.min..datetime.max
FromTimestamp(f) ==
    IF f.t = "float" \/ f.days < MinDay \/ f.days > MaxDay THEN Raised
    ELSE [days |-> f.days, sec |-> f.ms \div 1000, aware |-> TRUE, off |-> 0]

Pad2(n) == IF n < 10 THEN "0" \o ToString(n) ELSE ToString(n)

\* dt.strftime(ISO8601) (lines 27, 173, 181).  The C library prints %Y
\* without padding, so a year below 1000 has fewer than four digits.
Strftime(dt) ==
    LET c == Civil(dt.days)
    IN  ToString(c.year) \o "-" \o Pad2(c.month) \o "-" \o Pad2(c.day)
        \o "T" \o Pad2(dt.sec \div 3600) \o ":"
        \o Pad2((dt.sec % 3600) \div 60) \o ":" \o Pad2(dt.sec % 60) \o "Z"

\* s.replace("Z", "+00:00") (line 172)
RECURSIVE ReplaceZ(_)
ReplaceZ(s) ==
    IF s = "" THEN ""
    ELSE (IF SubSeq(s, 1, 1) = "Z" THEN "+00:00" ELSE SubSeq(s, 1, 1))
         \o ReplaceZ(SubSeq(s, 2, Len(s)))

DigitValue ==
    ("0" :> 0) @@ ("1" :> 1) @@ ("2" :> 2) @@ ("3" :> 3) @@ ("4" :> 4)
    @@ ("5" :> 5) @@ ("6" :> 6) @@ ("7" :> 7) @@ ("8" :> 8) @@ ("9" :> 9)

AllDigits(s) == \A k \in 1..Len(s) : SubSeq(s, k, k) \in DOMAIN DigitValue

\* the number a string of digits writes
RECURSIVE Number(_)
Number(s) ==
    IF s = "" THEN 0
    ELSE 10 * Number(SubSeq(s, 1, Len(s) - 1))
         + DigitValue[SubSeq(s, Len(s), Len(s))]

\* datetime.fromisoformat(s) (line 172) on the extended format
\* YYYY-MM-DD[THH:MM:SS[+HH:MM]]: the datetime, or Raised (ValueError) when
\* s is not of that format or a field is out of range.  The other formats
\* fromisoformat reads (basic, week dates, fractions of a second) are not
\* modelled and the input sets draw no string of them.
FromIsoFormat(s) ==
    LET n       == Len(s)
        at(i)   == SubSeq(s, i, i)
        num(i)  == Number(SubSeq(s, i, i + 1))
        datOk   == /\ n \in {10, 19, 25}
                   /\ AllDigits(SubSeq(s, 1, 4)) /\ at(5) = "-"
                   /\ AllDigits(SubSeq(s, 6, 7)) /\ at(8) = "-"
                   /\ AllDigits(SubSeq(s, 9, 10))
        timOk   == /\ at(11) \in {"T", " "}
                   /\ AllDigits(SubSeq(s, 12, 13)) /\ at(14) = ":"
                   /\ AllDigits(SubSeq(s, 15, 16)) /\ at(17) = ":"
                   /\ AllDigits(SubSeq(s, 18, 19))
                   /\ num(12) < 24 /\ num(15) < 60 /\ num(18) < 60
        offOk   == /\ at(20) \in {"+", "-"}
                   /\ AllDigits(SubSeq(s, 21, 22)) /\ at(23) = ":"
                   /\ AllDigits(SubSeq(s, 24, 25))
                   /\ num(21) < 24 /\ num(24) < 60
        year    == Number(SubSeq(s, 1, 4))
        rangeOk == /\ year >= 1
                   /\ num(6) \in 1..12
                   /\ num(9) \in 1..DaysInMonth(year, num(6))
        offset  == (IF at(20) = "-" THEN -1 ELSE 1) * (60 * num(21) + num(24))
    IN  IF ~datOk THEN Raised
        ELSE IF ~rangeOk THEN Raised
        ELSE IF n >= 19 /\ ~timOk THEN Raised
        ELSE IF n = 25 /\ ~offOk THEN Raised
        ELSE [days  |-> DaysFromCivil(year, num(6), num(9)),
              sec   |-> IF n = 10 THEN 0
                        ELSE 3600 * num(12) + 60 * num(15) + num(18),
              aware |-> n = 25,
              off   |-> IF n = 25 THEN offset ELSE 0]

\* dt.astimezone(timezone.utc) (line 173): the same instant in UTC, a
\* datetime without offset being read in the local zone of the process
\* (local_off minutes); Raised (OverflowError) outside datetime.min..max
AsTimezoneUTC(dt, local_off) ==
    LET off   == IF dt.aware THEN dt.off ELSE local_off
        total == dt.sec - 60 * off
        days  == dt.days + total \div SecPerDay
    IN  IF days < MinDay \/ days > MaxDay THEN Raised
        ELSE [days |-> days, sec |-> total % SecPerDay,
              aware |-> TRUE, off |-> 0]

\* the try body of the string branch (lines 172-173)
IsoToCanonical(s, local_off) ==
    LET dt == FromIsoFormat(ReplaceZ(s))
    IN  IF dt = Raised THEN Raised
        ELSE LET u == AsTimezoneUTC(dt, local_off)
             IN  IF u = Raised THEN Raised ELSE PyStr(Strftime(u))

\* the try body of the numeric branch (lines 179-181)
MillisToCanonical(x) ==
    LET f == TimestampFloat(x)
    IN  IF f = Raised THEN Raised
        ELSE LET dt == FromTimestamp(f)
             IN  IF dt = Raised THEN Raised ELSE PyStr(Strftime(dt))

Uncaught(v) == v

\* except Exception: return None (lines 174-175, 182-183)
Caught(v) == IF v = Raised THEN PyNone ELSE v

_to_iso(ts_ms_or_iso, local_off) ==
    IF ts_ms_or_iso \in {PyNone, PyStr("")} THEN PyNone
    ELSE IF ts_ms_or_iso.t = "str"
         THEN Caught(IsoToCanonical(ts_ms_or_iso.s, local_off))
    ELSE Caught(MillisToCanonical(ts_ms_or_iso))

(***************************************************************************)
(* Upstream inputs: what the two HTTP APIs may answer.                     *)
(***************************************************************************)
\* the id an upstream gives its k-th record
IdAt(k) == PyStr(ToString(k))

\* a Manifold record with all the fields the adapter reads
ManifoldRecord(k, ot, v, el) ==
    PyDict([id |-> IdAt(k), outcomeType |-> ot, probability |-> PyNum(50),
            volume24Hours |-> v, elasticity |-> el])

\* the k-th record of a Manifold response: every combination of type marker,
\* 24h volume and elasticity (null or a number); records whose volume or
\* elasticity is a numeric or a non-numeric string; a record with only an
\* id; and a record that is not an object
ManifoldRecordsAt(k) ==
    { ManifoldRecord(k, ot, v, el) :
        ot \in {PyStr("BINARY"), PyStr("MULTIPLE_CHOICE"), PyNone},
        v  \in {PyNone, PyNum(0), PyNum(2)},
        el \in {PyNone, PyNum(1)} }
    \cup {ManifoldRecord(k, PyStr("BINARY"), PyStr("7"), PyNum(1)),
          ManifoldRecord(k, PyStr("BINARY"), PyStr("abc"), PyNum(1)),
          ManifoldRecord(k, PyStr("BINARY"), PyNum(2), PyStr("abc")),
          PyDict([id |-> IdAt(k)]), PyStr("junk")}

RECURSIVE ManifoldLists(_)
ManifoldLists(n) ==
    IF n = 0 THEN {<<>>}
    ELSE {Append(l, r) : l \in ManifoldLists(n - 1), r \in ManifoldRecordsAt(n)}

\* a failed request, a body that is not a list, or a list of records
ManifoldResponses ==
    {Raised, PyNone, PyDict(<<>>), PyDict([error |-> PyStr("rate limited")])}
    \cup {PyList(l) : l \in UNION {ManifoldLists(n) : n \in 0..MaxRecords}}

\* the k-th market bundled in a Polymarket event
SubMarketsAt(k) ==
    { PyDict([id |-> IdAt(k), volume |-> v, liquidity |-> PyNum(1),
              prices |-> PyList(<<PyNum(60), PyNum(40)>>)]) :
        v \in {PyNone, PyNum(-2), PyNum(0), PyNum(1), PyNum(2), PyStr("abc")} }
    \cup {PyDict([id |-> IdAt(k), volume |-> PyNum(1),
                  liquidity |-> PyStr("abc")]),
          PyDict(<<>>), PyStr("junk")}

RECURSIVE SubMarketLists(_)
SubMarketLists(n) ==
    IF n = 0 THEN {<<>>}
    ELSE {Append(l, m) : l \in SubMarketLists(n - 1), m \in SubMarketsAt(n)}

\* an event bundling up to MaxSubMarkets markets
PolymarketEvents ==
    { PyDict([slug |-> PyStr("e"), markets |-> PyList(l)]) :
        l \in UNION {SubMarketLists(n) : n \in 0..MaxSubMarkets} }

\* a good market of volume v
GoodSubMarket(k, v) ==
    PyDict([id |-> IdAt(k), volume |-> PyNum(v), liquidity |-> PyNum(1),
            prices |-> PyList(<<PyNum(60), PyNum(40)>>)])

\* what a market may hold under "prices": null, lists of no, one, two and
\* three prices, prices written as strings, a list whose first entry is no
\* number, an empty object, a number
PriceValues ==
    {PyNone, PyList(<<>>), PyList(<<PyNum(60)>>),
     PyList(<<PyNum(60), PyNum(40)>>),
     PyList(<<PyNum(50), PyNum(30), PyNum(20)>>),
     PyList(<<PyStr("7")>>), PyList(<<PyStr("7"), PyStr("2")>>),
     PyList(<<PyStr("abc"), PyNum(1)>>), PyDict(<<>>), PyNum(5)}

\* the k-th market of an event, of volume 2, with and without "prices"
PricedSubMarketsAt(k) ==
    {PyDict([id |-> IdAt(k), volume |-> PyNum(2)])}
    \cup {PyDict([id |-> IdAt(k), volume |-> PyNum(2), prices |-> p]) :
            p \in PriceValues}

\* events whose market of volume 2 comes alone, after a market of lower
\* volume, or before a market of higher volume
PricedEvents ==
    {PyDict([slug |-> PyStr("p"), markets |-> PyList(<<m>>)]) :
        m \in PricedSubMarketsAt(1)}
    \cup {PyDict([slug |-> PyStr("p"),
                  markets |-> PyList(<<GoodSubMarket(1, 1), m>>)]) :
            m \in PricedSubMarketsAt(2)}
    \cup {PyDict([slug |-> PyStr("p"),
                  markets |-> PyList(<<m, GoodSubMarket(2, 7)>>)]) :
            m \in PricedSubMarketsAt(1)}

\* events a response is made of: no markets, one market, two markets, a
\* market whose volume is not numeric, an event with a numeric id and no
\* slug, a market without prices, and an event that is not an object
SampleEvents ==
    { PyDict([slug |-> PyStr("e0"), markets |-> PyList(<<>>)]),
      PyDict([slug |-> PyStr("e1"), markets |-> PyList(<<GoodSubMarket(1, 2)>>)]),
      PyDict([slug |-> PyStr("e2"),
              markets |-> PyList(<<GoodSubMarket(2, 1), GoodSubMarket(3, 2)>>)]),
      PyDict([slug |-> PyStr("e3"),
              markets |-> PyList(<<PyDict([id |-> IdAt(4),
                                           volume |-> PyStr("abc")])>>)]),
      PyDict([id |-> PyNum(5), markets |-> PyList(<<GoodSubMarket(5, 1)>>)]),
      PyDict([slug |-> PyStr("e6"),
              markets |-> PyList(<<PyDict([id |-> IdAt(6),
                                           volume |-> PyNum(1)])>>)]),
      PyStr("junk") }

RECURSIVE EventLists(_)
EventLists(n) ==
    IF n = 0 THEN {<<>>}
    ELSE {Append(l, e) : l \in EventLists(n - 1), e \in SampleEvents}

\* a failed request, a body of neither shape, a bare list of events, or an
\* object holding the list under "events"
PolymarketResponses ==
    {Raised, PyNone, PyDict(<<>>), PyDict([events |-> PyNum(3)]),
     PyDict([events |-> PyNone]), PyDict([error |-> PyStr("rate limited")])}
    \cup {PyList(l) : l \in UNION {EventLists(n) : n \in 0..MaxRecords}}
    \cup {PyDict([events |-> PyList(l)]) :
            l \in UNION {EventLists(n) : n \in 0..MaxRecords}}

(***************************************************************************)
(* aggregate_markets: filter, sort, truncate (lines 212-224)               *)
(***************************************************************************)
\* (m.liquidity or 0.0)
LiquidityKey(m) == Or(m.liquidity, PyNum(0)).n

\* (m.volume_24h or 0.0)
VolumeKey(m) == Or(m.volume_24h, PyNum(0)).n

\* a threshold that also drops the markets exactly at it
PassesLiquidityStrict(m, min) == LiquidityKey(m) > min.n

\* the liquidity test of the list comprehension
PassesLiquidity(m, min) == LiquidityKey(m) >= min.n

\* if min_liquidity is not None: keep the markets that pass
FilterLiquidity(ms, min) ==
    IF min = PyNone THEN ms
    ELSE SelectSeq(ms, LAMBDA m : PassesLiquidity(m, min))

Reverse(s) == [k \in 1..Len(s) |-> s[Len(s) + 1 - k]]

\* x goes after every element whose key is not greater: equal keys keep
\* their order
RECURSIVE InsertAscending(_, _)
InsertAscending(sorted, x) ==
    IF sorted = <<>> THEN <<x>>
    ELSE IF VolumeKey(sorted[Len(sorted)]) <= VolumeKey(x)
         THEN Append(sorted, x)
         ELSE Append(InsertAscending(SubSeq(sorted, 1, Len(sorted) - 1), x),
                     sorted[Len(sorted)])

RECURSIVE StableSortAscending(_)
StableSortAscending(s) ==
    IF s = <<>> THEN <<>>
    ELSE InsertAscending(StableSortAscending(SubSeq(s, 1, Len(s) - 1)),
                         s[Len(s)])

\* an ascending sort reversed afterwards: equal keys end up in reverse order
SortByVolumeKeyWritten(ms) ==
    LET sorted == Reverse(StableSortAscending(Reverse(ms)))
    IN  [k \in DOMAIN sorted |->
            [sorted[k] EXCEPT !.volume_24h = PyNum(VolumeKey(sorted[k]))]]

SortByVolumeUnstable(ms) == Reverse(StableSortAscending(ms))

\* list.sort(key=..., reverse=True): the list is reversed, sorted stably in
\* ascending key order, and reversed again
SortByVolume(ms) == Reverse(StableSortAscending(Reverse(ms)))

\* s[:n] for an int n: a negative n counts from the end
Slice(s, n) ==
    LET stop == IF n >= 0 THEN (IF n < Len(s) THEN n ELSE Len(s))
                ELSE (IF Len(s) + n > 0 THEN Len(s) + n ELSE 0)
    IN  SubSeq(s, 1, stop)

\* if top_n is not None: all_markets[:top_n]
Truncate(ms, top_n) == IF top_n = PyNone THEN ms ELSE Slice(ms, top_n.n)

(***************************************************************************)
(* aggregate_markets: the loop over the requested sources (lines 198-210)  *)
(***************************************************************************)
KnownSources == {"manifold", "polymarket"}

\* the names a caller may pass; "kalshi" has no adapter
SourceNames == KnownSources \cup {"kalshi"}

\* the adapter the if/elif chain calls for a known source
Adapter(src, resp) ==
    IF src = "manifold" THEN fetch_manifold(resp) ELSE fetch_polymarket(resp)

\* an extend that keeps what a failing adapter had built
ExtendPartial(markets, out) == markets \o out.markets

\* all_markets.extend(fetch(...)) inside the try: the list is extended only
\* when the adapter returns
Extend(markets, out) == IF out.ok THEN markets \o out.markets ELSE markets

\* the line the except clause writes to stderr
DiagnosticLine(src, exc) == [src |-> src, exc |-> exc]

\* a line written for every source, failed or not
LogAlways(err, src, out) == Append(err, [src |-> src, exc |-> "fetch error"])

\* stderr after one known source: a line only when the adapter raised
LogFailure(err, src, out) ==
    IF out.ok THEN err ELSE Append(err, DiagnosticLine(src, "fetch error"))

\* a loop that stays on a source whose fetch failed
RetryOnFailure(i, out) == IF out.ok THEN i + 1 ELSE i

\* the for loop moves to the next source, whatever happened to this one
NextSource(i, out) == i + 1

\* the responses the two upstreams give during an aggregation
SampleResponses(src) ==
    IF src = "manifold"
    THEN { Raised, PyList(<<>>),
           PyList(<<ManifoldRecord(1, PyStr("BINARY"), PyNum(2), PyNum(1))>>),
           PyList(<<ManifoldRecord(1, PyStr("BINARY"), PyNum(2), PyNum(1)),
                    ManifoldRecord(2, PyStr("BINARY"), PyNone, PyNum(2))>>),
           PyList(<<ManifoldRecord(1, PyStr("BINARY"), PyNum(2), PyNum(1)),
                    PyStr("junk")>>) }
    ELSE { Raised, PyList(<<>>),
           PyList(<<PyDict([slug |-> PyStr("e1"),
                            markets |-> PyList(<<GoodSubMarket(1, 2)>>)])>>),
           PyDict([events |-> PyList(<<
               PyDict([slug |-> PyStr("e2"),
                       markets |-> PyList(<<GoodSubMarket(2, 1),
                                            GoodSubMarket(3, 2)>>)]),
               PyDict([slug |-> PyStr("e1"),
                       markets |-> PyList(<<GoodSubMarket(1, 1)>>)])>>)]),
           PyList(<<PyDict([slug |-> PyStr("e1"),
                            markets |-> PyList(<<GoodSubMarket(1, 2)>>)]),
                    PyStr("junk")>>) }

\* the arguments a caller may pass
MinLiquidities == {PyNone, PyNum(0), PyNum(2)}
TopNs == {PyNone, PyNum(-1), PyNum(0), PyNum(2)}

RECURSIVE SeqsUpTo(_, _)
SeqsUpTo(S, n) ==
    IF n = 0 THEN {<<>>}
    ELSE SeqsUpTo(S, n - 1)
         \cup {Append(l, x) : l \in {q \in SeqsUpTo(S, n - 1) : Len(q) = n - 1},
                              x \in S}

\* the market lists the loop may leave in all_markets: both sources, every
\* combination of null, zero and positive volume with null and positive
\* liquidity
RankMarkets ==
    { Market(PyStr("manifold"), PyStr("1"), PyStr("binary"), PyNum(50), v, l) :
        v \in {PyNone, PyNum(0), PyNum(2)}, l \in {PyNone, PyNum(1), PyNum(2)} }
    \cup
    { Market(PyStr("polymarket"), PyStr("1"), PyStr("binary"), PyNum(60), v,
             PyNum(2)) : v \in {PyNone, PyNum(0), PyNum(2)} }

(***************************************************************************)
(* State.                                                                  *)
(***************************************************************************)
VARIABLES
    sources,        \* aggregate_markets: the requested sources, in order
    min_liquidity,  \* aggregate_markets: the argument, None or a number
    top_n,          \* aggregate_markets: the argument, None or an int
    pc,             \* where aggregate_markets is: loop, wait, done
    idx,            \* the position in sources the for loop is at
    all_markets,    \* the local list; the returned list once pc = "done"
    stderr,         \* the diagnostic lines written so far
    fetch_log,      \* history: every adapter call made, with what it gave
    h_concat,       \* history: all_markets when the loop ended
    h_filtered,     \* history: all_markets after the liquidity filter
    h_sorted,       \* history: all_markets after the sort
    call,           \* an adapter call on its own: the function and its input
    ret,            \* what that call gave back
    payload,        \* main: the snapshot built from the returned list
    args_out,       \* main: args.out, "-" or the path of a file
    mpc,            \* main: where it is after aggregate_markets returned
    file,           \* the file at the path args.out
    stdout_buf,     \* sys.stdout: the text written and not flushed yet
    stdout,         \* what reached the destination of the standard output
    exit_code,      \* the exit status of the process, None while it runs
    tasks,          \* BeaconAgent: the Task objects created so far
    task_queue,     \* BeaconAgent.task_queue: references to Task objects
    executed_tasks, \* BeaconAgent.executed_tasks: references to Task objects
    run_loops,      \* the frame of each run_loop call: where it is, its locals
    agent_status,   \* what the last get_status call returned
    h_calls         \* history: the queue and the executed tasks each
                    \* run_loop call found, whether a task was added
                    \* during the call, and whether another call ran then

vars == <<sources, min_liquidity, top_n, pc, idx, all_markets, stderr,
          fetch_log, h_concat, h_filtered, h_sorted, call, ret, payload,
          args_out, mpc, file, stdout_buf, stdout, exit_code,
          tasks, task_queue, executed_tasks, run_loops, agent_status,
          h_calls>>

mainVars == <<args_out, mpc, file, stdout_buf, stdout, exit_code>>

agentVars == <<tasks, task_queue, executed_tasks, run_loops, agent_status,
               h_calls>>

aggregatorVars ==
    <<sources, min_liquidity, top_n, pc, idx, all_markets, stderr, fetch_log,
      h_concat, h_filtered, h_sorted, payload, mainVars>>

aggVars == <<aggregatorVars, agentVars>>

NoCall == [fn |-> "none"]
NoReturn == [t |-> "pending"]
NoPayload == [built |-> FALSE]

\* the contents of a file or of the standard output: nothing there, the
\* contents the file had before the run, an empty file, the beginning of a
\* text, or a whole text
Absent == [state |-> "absent"]
OldContents == [state |-> "old"]
Empty == [state |-> "empty"]
Partial == [state |-> "partial"]
Written(text) == [state |-> "written", text |-> text]

\* main has not gone past aggregate_markets: nothing is written, the process
\* runs
MainIdle ==
    /\ args_out = "-"
    /\ mpc = "aggregate"
    /\ file = Absent
    /\ stdout_buf = Empty
    /\ stdout = Empty
    /\ exit_code = PyNone

\* the frame of a run_loop call that has not been made
NoLoop == [pc |-> "idle"]

NoStatus == [called |-> FALSE]

NoHistory == [called |-> FALSE]

\* BeaconAgent(name) (agent.py, lines 41-45): no task yet, and none of the
\* MaxLoops run_loop calls made
AgentIdle ==
    /\ tasks = <<>>
    /\ task_queue = <<>>
    /\ executed_tasks = <<>>
    /\ run_loops = [c \in 1..MaxLoops |-> NoLoop]
    /\ agent_status = NoStatus
    /\ h_calls = [c \in 1..MaxLoops |-> NoHistory]

\* asdict(m): the dict of the fields of a Market
AsDict(m) == PyDict(m)

SnapshotCountOffByOne(srcs, markets) ==
    [built |-> TRUE, sources |-> srcs, count |-> Len(markets) + 1,
     markets |-> [k \in DOMAIN markets |-> AsDict(markets[k])]]

SnapshotSourcesFetched(srcs, markets) ==
    [built |-> TRUE,
     sources |-> SelectSeq(srcs, LAMBDA s :
                     \E k \in 1..Len(markets) : markets[k].source = PyStr(s)),
     count |-> Len(markets),
     markets |-> [k \in DOMAIN markets |-> AsDict(markets[k])]]

\* the payload main builds (lines 279-284); generated_at, the time of the
\* clock, is left out
Snapshot(srcs, markets) ==
    [built |-> TRUE, sources |-> srcs, count |-> Len(markets),
     markets |-> [k \in DOMAIN markets |-> AsDict(markets[k])]]

(***************************************************************************)
(* aggregate_markets as a state machine: one step per adapter call and     *)
(* return, one for an unknown name, one for filter/sort/truncate/return.   *)
(***************************************************************************)
Init ==
    /\ sources \in SeqsUpTo(SourceNames, MaxSources)
    /\ min_liquidity \in MinLiquidities
    /\ top_n \in TopNs
    /\ pc = "loop"
    /\ idx = 1
    /\ all_markets = <<>>
    /\ stderr = <<>>
    /\ fetch_log = <<>>
    /\ h_concat = <<>>
    /\ h_filtered = <<>>
    /\ h_sorted = <<>>
    /\ call = NoCall
    /\ ret = NoReturn
    /\ payload = NoPayload
    /\ MainIdle
    /\ AgentIdle

\* the try body reaches fetch_manifold / fetch_polymarket: the request goes out
CallAdapter ==
    /\ pc = "loop"
    /\ idx <= Len(sources)
    /\ sources[idx] \in KnownSources
    /\ fetch_log' = Append(fetch_log, [i |-> idx, src |-> sources[idx],
                                       state |-> "pending", markets |-> <<>>])
    /\ pc' = "wait"
    /\ UNCHANGED <<sources, min_liquidity, top_n, idx, all_markets, stderr,
                   h_concat, h_filtered, h_sorted, call, ret, payload, mainVars,
                   agentVars>>

\* the adapter returns its list or raises; extend, or log and continue
AdapterReturns ==
    /\ pc = "wait"
    /\ \E resp \in SampleResponses(sources[idx]) :
         LET out == Adapter(sources[idx], resp)
         IN  /\ all_markets' = Extend(all_markets, out)
             /\ stderr' = LogFailure(stderr, sources[idx], out)
             /\ fetch_log' = [fetch_log EXCEPT ![Len(fetch_log)] =
                    [@ EXCEPT !.state = IF out.ok THEN "ok" ELSE "failed",
                              !.markets = out.markets]]
             /\ idx' = NextSource(idx, out)
    /\ pc' = "loop"
    /\ UNCHANGED <<sources, min_liquidity, top_n, h_concat, h_filtered,
                   h_sorted, call, ret, payload, mainVars,
                   agentVars>>

\* the else branch: raise ValueError, caught by the except clause of the
\* same try, which logs it and goes on
UnknownSource ==
    /\ pc = "loop"
    /\ idx <= Len(sources)
    /\ sources[idx] \notin KnownSources
    /\ stderr' = Append(stderr, DiagnosticLine(sources[idx], "Unknown source"))
    /\ idx' = idx + 1
    /\ UNCHANGED <<sources, min_liquidity, top_n, pc, all_markets, fetch_log,
                   h_concat, h_filtered, h_sorted, call, ret, payload, mainVars,
                   agentVars>>

\* lines 212-224 on the list the loop left
ApplyRanking ==
    /\ h_concat' = all_markets
    /\ h_filtered' = FilterLiquidity(all_markets, min_liquidity)
    /\ h_sorted' = SortByVolume(FilterLiquidity(all_markets, min_liquidity))
    /\ all_markets' =
         Truncate(SortByVolume(FilterLiquidity(all_markets, min_liquidity)),
                  top_n)
    /\ pc' = "done"

\* the loop is over: filter, sort, truncate, return
Finish ==
    /\ pc = "loop"
    /\ idx > Len(sources)
    /\ ApplyRanking
    /\ UNCHANGED <<sources, min_liquidity, top_n, idx, stderr, fetch_log,
                   call, ret, payload, mainVars,
                   agentVars>>

\* main, after aggregate_markets returned: the payload is built from the
\* sources asked for and the list returned (lines 279-284)
BuildPayload ==
    /\ pc = "done"
    /\ payload = NoPayload
    /\ payload' = Snapshot(sources, all_markets)
    /\ UNCHANGED <<sources, min_liquidity, top_n, pc, idx, all_markets,
                   stderr, fetch_log, h_concat, h_filtered, h_sorted,
                   call, ret, mainVars,
                   agentVars>>

Next ==
    CallAdapter \/ AdapterReturns \/ UnknownSource \/ Finish \/ BuildPayload

Spec == Init /\ [][Next]_vars

(***************************************************************************)
(* main (lines 265-301): the command line run.  parse_args gives a list of *)
(* one or more known sources, an int top_n and args.out; aggregate_markets *)
(* catches every exception of its loop, so the except clause of main       *)
(* (lines 275-277) is never entered and has no action here.                *)
(***************************************************************************)
\* the exit status of the interpreter when the flush of sys.stdout at exit
\* fails
ExitFlushFailure == 120

\* the exit status of the interpreter when an exception is not caught
ExitUncaught == 1

\* json.dumps(payload, ensure_ascii=False, indent=2) (line 286), with the
\* "\n" line 289 adds for the standard output
JsonDumps(p, newline) == [json |-> p, newline |-> newline]

\* everything main leaves alone once aggregate_markets has returned
beforeEmit ==
    <<sources, min_liquidity, top_n, pc, idx, all_markets, stderr, fetch_log,
      h_concat, h_filtered, h_sorted, payload, call, ret, agentVars>>

MainInit ==
    /\ sources \in SeqsUpTo(KnownSources, MaxSources) \ {<<>>}
    /\ min_liquidity = PyNone
    /\ top_n = PyNum(2)
    /\ pc = "loop"
    /\ idx = 1
    /\ all_markets = <<>>
    /\ stderr = <<>>
    /\ fetch_log = <<>>
    /\ h_concat = <<>>
    /\ h_filtered = <<>>
    /\ h_sorted = <<>>
    /\ call = NoCall
    /\ ret = NoReturn
    /\ payload = NoPayload
    /\ args_out \in {"-", "snapshot.json"}
    /\ mpc = "aggregate"
    /\ file \in (IF args_out = "-" THEN {Absent} ELSE {Absent, OldContents})
    /\ stdout_buf = Empty
    /\ stdout = Empty
    /\ exit_code = PyNone
    /\ AgentIdle

\* text = json.dumps(payload, ...) (line 286): the payload holds strings,
\* numbers, nulls and lists only, so it never raises
Serialize ==
    /\ payload.built
    /\ mpc = "aggregate"
    /\ mpc' = "text"
    /\ UNCHANGED <<beforeEmit, args_out, file, stdout_buf, stdout, exit_code>>

\* sys.stdout.write(text + "\n") (line 289) and return 0 (line 297): the
\* text goes into the buffer of sys.stdout
WriteStdout ==
    /\ mpc = "text"
    /\ args_out = "-"
    /\ stdout_buf' = Written(JsonDumps(payload, TRUE))
    /\ mpc' = "returned"
    /\ UNCHANGED <<beforeEmit, args_out, file, stdout, exit_code>>

\* sys.stdout.write raises (the text cannot be encoded, or it does not fit
\* the buffer and the destination refuses it): main raises
WriteStdoutRaises ==
    /\ mpc = "text"
    /\ args_out = "-"
    /\ mpc' = "raised"
    /\ UNCHANGED <<beforeEmit, args_out, file, stdout_buf, stdout, exit_code>>

\* out_path.parent.mkdir (line 294) or the open of write_text (line 295)
\* raises: main raises and the file is as it was
OpenRaises ==
    /\ mpc = "text"
    /\ args_out # "-"
    /\ mpc' = "raised"
    /\ UNCHANGED <<beforeEmit, args_out, file, stdout_buf, stdout, exit_code>>

\* write_text opens the file for writing (line 295): it is created, or cut
\* to no contents
OpenFile ==
    /\ mpc = "text"
    /\ args_out # "-"
    /\ file' = Empty
    /\ mpc' = "opened"
    /\ UNCHANGED <<beforeEmit, args_out, stdout_buf, stdout, exit_code>>

\* write_text writes the text and closes the file (line 295), return 0
\* (line 297)
WriteFile ==
    /\ mpc = "opened"
    /\ file' = Written(JsonDumps(payload, FALSE))
    /\ mpc' = "returned"
    /\ UNCHANGED <<beforeEmit, args_out, stdout_buf, stdout, exit_code>>

\* the write or the close of write_text raises (the text cannot be encoded,
\* the device is full): nothing or a part of the text is in the file, and
\* main raises
WriteFileRaises ==
    /\ mpc = "opened"
    /\ file' \in {Empty, Partial}
    /\ mpc' = "raised"
    /\ UNCHANGED <<beforeEmit, args_out, stdout_buf, stdout, exit_code>>

\* raise SystemExit(main()) (line 301) after main returned 0: the
\* interpreter flushes sys.stdout and exits with 0
Exit ==
    /\ mpc = "returned"
    /\ stdout' = (IF stdout_buf = Empty THEN stdout ELSE stdout_buf)
    /\ stdout_buf' = Empty
    /\ exit_code' = PyNum(0)
    /\ mpc' = "exited"
    /\ UNCHANGED <<beforeEmit, args_out, file>>

\* the same, the destination of the standard output refusing the flush
ExitFlushRaises ==
    /\ mpc = "returned"
    /\ stdout_buf # Empty
    /\ stdout_buf' = Empty
    /\ exit_code' = PyNum(ExitFlushFailure)
    /\ mpc' = "exited"
    /\ UNCHANGED <<beforeEmit, args_out, file, stdout>>

\* main raised: nothing catches the exception (line 301)
ExitRaised ==
    /\ mpc = "raised"
    /\ exit_code' = PyNum(ExitUncaught)
    /\ mpc' = "exited"
    /\ UNCHANGED <<beforeEmit, args_out, file, stdout_buf, stdout>>

MainNext ==
    \/ CallAdapter \/ AdapterReturns \/ Finish \/ BuildPayload
    \/ Serialize \/ WriteStdout \/ WriteStdoutRaises \/ OpenRaises
    \/ OpenFile \/ WriteFile \/ WriteFileRaises
    \/ Exit \/ ExitFlushRaises \/ ExitRaised

SpecMain == MainInit /\ [][MainNext]_vars

(***************************************************************************)
(* Filter, sort and truncate on their own, from any list the loop may      *)
(* leave.                                                                  *)
(***************************************************************************)
RankInit ==
    /\ sources = <<>>
    /\ min_liquidity \in MinLiquidities
    /\ top_n \in TopNs
    /\ pc = "rank"
    /\ idx = 1
    /\ all_markets \in SeqsUpTo(RankMarkets, MaxMarkets)
    /\ stderr = <<>>
    /\ fetch_log = <<>>
    /\ h_concat = <<>>
    /\ h_filtered = <<>>
    /\ h_sorted = <<>>
    /\ call = NoCall
    /\ ret = NoReturn
    /\ payload = NoPayload
    /\ MainIdle
    /\ AgentIdle

Rank ==
    /\ pc = "rank"
    /\ ApplyRanking
    /\ UNCHANGED <<sources, min_liquidity, top_n, idx, stderr, fetch_log,
                   call, ret, payload, mainVars,
                   agentVars>>

SpecRank == RankInit /\ [][Rank]_vars

(***************************************************************************)
(* One adapter call on its own, on any response; and one pass of           *)
(* fetch_polymarket's loop, on any event.                                  *)
(***************************************************************************)
IdleAggregate ==
    /\ sources = <<>>
    /\ min_liquidity = PyNone
    /\ top_n = PyNone
    /\ pc = "idle"
    /\ idx = 1
    /\ all_markets = <<>>
    /\ stderr = <<>>
    /\ fetch_log = <<>>
    /\ h_concat = <<>>
    /\ h_filtered = <<>>
    /\ h_sorted = <<>>
    /\ payload = NoPayload
    /\ MainIdle
    /\ AgentIdle

FetchInit ==
    /\ IdleAggregate
    /\ \/ call \in {[fn |-> "fetch_manifold", arg |-> r] : r \in ManifoldResponses}
       \/ call \in {[fn |-> "fetch_polymarket", arg |-> r] :
                      r \in PolymarketResponses}
    /\ ret = NoReturn

FetchManifold ==
    /\ call.fn = "fetch_manifold"
    /\ ret = NoReturn
    /\ ret' = fetch_manifold(call.arg)
    /\ UNCHANGED <<aggVars, call>>

FetchPolymarket ==
    /\ call.fn = "fetch_polymarket"
    /\ ret = NoReturn
    /\ ret' = fetch_polymarket(call.arg)
    /\ UNCHANGED <<aggVars, call>>

FetchNext == FetchManifold \/ FetchPolymarket

SpecFetch == FetchInit /\ [][FetchNext]_vars

EventInit ==
    /\ IdleAggregate
    /\ call \in {[fn |-> "event", arg |-> e] :
                   e \in PolymarketEvents \cup PricedEvents}
    /\ ret = NoReturn

PolymarketEvent ==
    /\ call.fn = "event"
    /\ ret = NoReturn
    /\ ret' = PolymarketMarket(call.arg)
    /\ UNCHANGED <<aggVars, call>>

SpecEvent == EventInit /\ [][PolymarketEvent]_vars

(***************************************************************************)
(* _to_iso on its own, on any value a response may hold in a timestamp     *)
(* field.                                                                  *)
(***************************************************************************)
\* day numbers: the day before datetime.min and datetime.min, the last day
\* of year 999 and the first of year 1000, 1900-01-01, the days around the
\* epoch, 28 February and 1 March 1970, 29 February 1972 and 2000,
\* 2024-01-01, datetime.max and the day after
DaySamples ==
    {-719163, -719162, -354286, -354285, -25567, -1, 0, 58, 59, 789, 11016,
     19723, 2932896, 2932897}

TimestampNumbers ==
    {PyNum(n) : n \in {0, 1, -1, 999, 1000, -1000, 86399999, 86400000}}
    \cup {PyMillis(d, r) : d \in DaySamples,
                           r \in {0, 999, 1000, 43200000, 86399999}}
    \cup {PyFloat("nan"), PyFloat("inf")}

TimestampStrings ==
    {PyStr(s) : s \in
        {"", "Z", "abc", "junk", "7", "2024/01/02", "2024-13-01T00:00:00Z",
         "2023-02-29", "2024-02-30", "0000-01-01", "2024-01-02T24:00:00Z",
         "2024-01-02T03:04:05ZZ", "2024-01-02T03:04:05+24:00",
         "2024-01-02", "2024-02-29", "2024-01-02T03:04:05",
         "2024-01-02 03:04:05", "2024-01-02T03:04:05Z",
         "2024-01-02T03:04:05+02:00", "2024-01-01T00:30:00+02:00",
         "2024-12-31T23:30:00-01:30", "0999-12-31T23:59:59Z",
         "0001-01-01T00:00:00+05:00", "9999-12-31T23:59:59-05:00"}}

TimestampValues ==
    {PyNone, PyBool(TRUE), PyBool(FALSE), PyList(<<>>), PyList(<<PyNum(1)>>),
     PyDict(<<>>)}
    \cup TimestampNumbers \cup TimestampStrings

\* the UTC offset, in minutes, of the zone the process runs in
LocalOffsets == {0, 120, -300}

IsoInit ==
    /\ IdleAggregate
    /\ call \in {[fn |-> "_to_iso", arg |-> x] : x \in TimestampValues}
    /\ ret = NoReturn

ToIso ==
    /\ call.fn = "_to_iso"
    /\ ret = NoReturn
    /\ \E local_off \in LocalOffsets : ret' = _to_iso(call.arg, local_off)
    /\ UNCHANGED <<aggVars, call>>

SpecIso == IsoInit /\ [][ToIso]_vars

(***************************************************************************)
(* RustChainClient.ping (src/rustchain_sdk/rustchain/__init__.py).  What   *)
(* the session gives for GET /health is a transport error or a response    *)
(* with a status code and a body text.                                     *)
(***************************************************************************)
\* body texts: the empty text, a JSON document (held as its parsed value),
\* a text that is not JSON
EmptyText == [empty |-> TRUE, parses |-> FALSE]
JsonText(v) == [empty |-> FALSE, parses |-> TRUE, value |-> v]
BadText == [empty |-> FALSE, parses |-> FALSE]

TransportError(kind) == [t |-> "error", kind |-> kind]
Response(status, text) == [t |-> "response", status |-> status, text |-> text]

\* response.raise_for_status() (line 120): HTTPError for 4xx and 5xx
RaiseForStatus(response) ==
    IF response.status >= 400 /\ response.status < 600 THEN Raised ELSE PyNone

\* response.json() if response.text else {} (line 122)
ResponseData(response) ==
    IF response.text.empty THEN PyDict(<<>>)
    ELSE IF response.text.parses THEN response.text.value
    ELSE Raised

\* _request (lines 110-122): the parsed body, or Raised
Request(outcome) ==
    IF outcome.t = "error" THEN Raised
    ELSE IF RaiseForStatus(outcome) = Raised THEN Raised
    ELSE ResponseData(outcome)

NodeInfo(status, timestamp) ==
    [t |-> "NodeInfo", status |-> status, timestamp |-> timestamp]

\* health (lines 126-132): the NodeInfo, or Raised
health(outcome) ==
    LET data      == Request(outcome)
        status    == Get(data, "status", PyStr("unknown"))
        timestamp == Get(data, "timestamp", PyStr(""))
    IN  IF data = Raised \/ AnyRaised({status, timestamp}) THEN Raised
        ELSE NodeInfo(status, timestamp)

pingUnguarded(outcome) ==
    IF health(outcome) = Raised THEN Raised ELSE PyBool(TRUE)

\* ping (lines 229-235)
ping(outcome) ==
    IF health(outcome) = Raised THEN PyBool(FALSE) ELSE PyBool(TRUE)

HealthBodies ==
    {EmptyText, BadText}
    \cup {JsonText(v) : v \in
            {PyDict(<<>>), PyDict([status |-> PyStr("healthy")]),
             PyDict([status |-> PyStr("healthy"),
                     timestamp |-> PyStr("2024-01-02T03:04:05Z")]),
             PyDict([timestamp |-> PyNum(0)]),
             PyDict([error |-> PyStr("rate limited")]),
             PyList(<<>>), PyList(<<PyNum(1)>>), PyNone, PyNum(1),
             PyStr("ok")}}

HealthOutcomes ==
    {TransportError(k) : k \in {"ConnectionError", "Timeout", "SSLError"}}
    \cup {Response(s, b) : s \in {200, 204, 301, 400, 404, 500, 503},
                           b \in HealthBodies}

PingInit ==
    /\ IdleAggregate
    /\ call \in {[fn |-> "ping", arg |-> o] : o \in HealthOutcomes}
    /\ ret = NoReturn

Ping ==
    /\ call.fn = "ping"
    /\ ret = NoReturn
    /\ ret' = ping(call.arg)
    /\ UNCHANGED <<aggVars, call>>

SpecPing == PingInit /\ [][Ping]_vars

(***************************************************************************)
(* BeaconAgent (beacon_integration/agent.py): a priority queue of tasks,   *)
(* and run_loop coroutines that take tasks from it.  A Task is an object:  *)
(* the queue, executed_tasks and the frames of run_loop hold references    *)
(* to it (its position in tasks), and a change of its status is seen       *)
(* through all of them.  A coroutine runs without interruption from one    *)
(* await to the next, so each action below is one such stretch.            *)
(***************************************************************************)
\* TaskStatus (lines 21-25)
PENDING == "pending"
RUNNING == "running"
COMPLETED == "completed"
FAILED == "failed"

\* self.name
AgentName == "agent"

\* f"{self.name}-{len(self.task_queue)}" (line 50)
TaskId(name, queue) == name \o "-" \o ToString(Len(queue))

\* Task(id=..., description=..., priority=...) (lines 27-36, 49-53); the
\* description and the two timestamps are not kept
Task(id, priority) ==
    [id |-> id, priority |-> priority, status |-> PENDING,
     result |-> PyNone, error |-> PyNone]

\* the sort key of add_task: lambda t: -t.priority (line 56)
PriorityKey(heap, t) == 0 - heap[t].priority

InsertBeforeEquals(heap, sorted, t) ==
    LET later == {k \in 1..Len(sorted) :
                      PriorityKey(heap, sorted[k]) >= PriorityKey(heap, t)}
        pos   == IF later = {} THEN Len(sorted) + 1
                 ELSE CHOOSE k \in later : \A j \in later : k <= j
    IN  SubSeq(sorted, 1, pos - 1) \o <<t>> \o SubSeq(sorted, pos, Len(sorted))

\* one step of a stable ascending sort: t goes after every reference whose
\* key is not greater than its own
InsertByPriority(heap, sorted, t) ==
    LET later == {k \in 1..Len(sorted) :
                      PriorityKey(heap, sorted[k]) > PriorityKey(heap, t)}
        pos   == IF later = {} THEN Len(sorted) + 1
                 ELSE CHOOSE k \in later : \A j \in later : k <= j
    IN  SubSeq(sorted, 1, pos - 1) \o <<t>> \o SubSeq(sorted, pos, Len(sorted))

\* self.task_queue.sort(key=lambda t: -t.priority) (line 56): list.sort is
\* stable
RECURSIVE SortByPriority(_, _)
SortByPriority(heap, queue) ==
    IF queue = <<>> THEN <<>>
    ELSE InsertByPriority(heap,
                          SortByPriority(heap, SubSeq(queue, 1, Len(queue) - 1)),
                          queue[Len(queue)])

\* list.remove(t): the list without the first occurrence of t
Remove(queue, t) ==
    LET at  == {k \in 1..Len(queue) : queue[k] = t}
        pos == CHOOSE k \in at : \A j \in at : k <= j
    IN  SubSeq(queue, 1, pos - 1) \o SubSeq(queue, pos + 1, Len(queue))

\* the finally clause of execute_task (lines 75-77).  Two Task objects are
\* equal when all their fields are; created_at differs from one object to
\* the next, so `task in self.task_queue` finds the object itself only
Finally(queue, executed, t) ==
    [executed |-> Append(executed, t),
     queue    |-> IF \E k \in 1..Len(queue) : queue[k] = t
                  THEN Remove(queue, t) ELSE queue]

LoopTestOneMore(heap, queue, max_tasks, count) ==
    IF queue # <<>> /\ count <= max_tasks
    THEN [heap  |-> [heap EXCEPT ![Head(queue)].status = RUNNING],
          queue |-> Tail(queue),
          frame |-> [pc |-> "sleep", max_tasks |-> max_tasks,
                     count |-> count, task |-> Head(queue)]]
    ELSE [heap  |-> heap,
          queue |-> queue,
          frame |-> [pc |-> "returned", max_tasks |-> max_tasks,
                     count |-> count]]

\* the test of the while loop (line 84) and, when it passes, the body up to
\* the await of execute_task: pop(0) (line 85), status RUNNING (line 62),
\* asyncio.sleep (line 67).  When it fails run_loop returns (line 89)
LoopTest(heap, queue, max_tasks, count) ==
    IF queue # <<>> /\ count < max_tasks
    THEN [heap  |-> [heap EXCEPT ![Head(queue)].status = RUNNING],
          queue |-> Tail(queue),
          frame |-> [pc |-> "sleep", max_tasks |-> max_tasks,
                     count |-> count, task |-> Head(queue)]]
    ELSE [heap  |-> heap,
          queue |-> queue,
          frame |-> [pc |-> "returned", max_tasks |-> max_tasks,
                     count |-> count]]

\* get_status (lines 91-99)
get_status(heap, queue, executed) ==
    [name            |-> AgentName,
     pending_tasks   |-> Len(queue),
     completed_tasks |->
         Len(SelectSeq(executed, LAMBDA t : heap[t].status = COMPLETED)),
     failed_tasks    |->
         Len(SelectSeq(executed, LAMBDA t : heap[t].status = FAILED)),
     queue           |-> [k \in 1..Len(queue) |-> heap[queue[k]].id]]

\* the default of max_tasks (line 81)
DefaultMaxTasks == 10

\* the priorities given to add_task, and the max_tasks given to run_loop:
\* none, one, and the default, which is more than the agent is given
Priorities == 0..MaxPriority
MaxTasksValues == {0, 1, DefaultMaxTasks}

\* BeaconAgent(name) (lines 41-45), and MaxLoops run_loop calls to be made
AgentInit ==
    /\ IdleAggregate
    /\ call = NoCall
    /\ ret = NoReturn

\* add_task(description, priority) (lines 47-58)
add_task(priority) ==
    /\ Len(tasks) < MaxTasks
    /\ tasks' = Append(tasks, Task(TaskId(AgentName, task_queue), priority))
    /\ task_queue' = SortByPriority(tasks', Append(task_queue, Len(tasks) + 1))
    /\ h_calls' = [c \in 1..MaxLoops |->
                      IF run_loops[c].pc = "sleep"
                      THEN [h_calls[c] EXCEPT !.added = TRUE]
                      ELSE h_calls[c]]
    /\ UNCHANGED <<aggregatorVars, call, ret, executed_tasks, run_loops,
                   agent_status>>

AddTask == \E priority \in Priorities : add_task(priority)

\* the call run_loop(max_tasks) up to its first await, or to its return
\* (lines 83-86, 89)
run_loop(c, max_tasks) ==
    /\ run_loops[c].pc = "idle"
    /\ LET step   == LoopTest(tasks, task_queue, max_tasks, 0)
           others == \E d \in 1..MaxLoops : run_loops[d].pc = "sleep"
       IN  /\ tasks' = step.heap
           /\ task_queue' = step.queue
           /\ run_loops' = [run_loops EXCEPT ![c] = step.frame]
           /\ h_calls' = [d \in 1..MaxLoops |->
                             IF d = c
                             THEN [called |-> TRUE, queue |-> task_queue,
                                   executed |-> executed_tasks,
                                   added |-> FALSE, shared |-> others]
                             ELSE IF run_loops[d].pc = "sleep"
                                  THEN [h_calls[d] EXCEPT !.shared = TRUE]
                                  ELSE h_calls[d]]
    /\ UNCHANGED <<aggregatorVars, call, ret, executed_tasks, agent_status>>

RunLoop == \E c \in 1..MaxLoops, max_tasks \in MaxTasksValues :
               run_loop(c, max_tasks)

\* what follows execute_task in run_loop: count += 1 (line 87) and the test
\* of the loop again
Resume(c, heap, done) ==
    LET step == LoopTest(heap, done.queue, run_loops[c].max_tasks,
                         run_loops[c].count + 1)
    IN  /\ tasks' = step.heap
        /\ task_queue' = step.queue
        /\ executed_tasks' = done.executed
        /\ run_loops' = [run_loops EXCEPT ![c] = step.frame]
        /\ UNCHANGED <<aggregatorVars, call, ret, agent_status, h_calls>>

\* asyncio.sleep returns (lines 68-70, 75-79, 87)
SleepReturns(c) ==
    /\ run_loops[c].pc = "sleep"
    /\ LET t    == run_loops[c].task
           heap == [tasks EXCEPT
                       ![t].result = PyStr("Task " \o tasks[t].id
                                           \o " completed successfully"),
                       ![t].status = COMPLETED]
       IN  Resume(c, heap, Finally(task_queue, executed_tasks, t))

\* the await raises an Exception (lines 71-73, 75-79, 87): an exception
\* thrown into the coroutine, or the CancelledError of an interpreter older
\* than Python 3.8, where it is an Exception
SleepRaises(c) ==
    /\ run_loops[c].pc = "sleep"
    /\ LET t    == run_loops[c].task
           heap == [tasks EXCEPT ![t].error = PyStr("exception"),
                                 ![t].status = FAILED]
       IN  Resume(c, heap, Finally(task_queue, executed_tasks, t))

\* the run_loop call is cancelled while it sleeps: since Python 3.8
\* CancelledError is a BaseException, which `except Exception` (line 71)
\* does not catch; the finally clause runs (lines 75-77) and the exception
\* leaves execute_task and run_loop
Cancel(c) ==
    /\ run_loops[c].pc = "sleep"
    /\ LET done == Finally(task_queue, executed_tasks, run_loops[c].task)
       IN  /\ task_queue' = done.queue
           /\ executed_tasks' = done.executed
    /\ run_loops' = [run_loops EXCEPT ![c] =
                        [pc |-> "cancelled",
                         max_tasks |-> run_loops[c].max_tasks,
                         count |-> run_loops[c].count]]
    /\ UNCHANGED <<aggregatorVars, call, ret, tasks, agent_status, h_calls>>

\* a call of get_status between two stretches of the coroutines
GetStatus ==
    /\ agent_status' =
           [called |-> TRUE,
            value |-> get_status(tasks, task_queue, executed_tasks),
            h_added |-> Len(tasks)]
    /\ UNCHANGED <<aggregatorVars, call, ret, tasks, task_queue, executed_tasks,
                   run_loops, h_calls>>

AgentNext ==
    \/ AddTask
    \/ RunLoop
    \/ \E c \in 1..MaxLoops : SleepReturns(c)
    \/ \E c \in 1..MaxLoops : SleepRaises(c)
    \/ \E c \in 1..MaxLoops : Cancel(c)

SpecAgent == AgentInit /\ [][AgentNext]_vars

\* the event loop resumes a coroutine that sleeps once its timer is due
SpecAgentFair ==
    /\ SpecAgent
    /\ \A c \in 1..MaxLoops :
           WF_vars(SleepReturns(c) \/ SleepRaises(c) \/ Cancel(c))

\* the same agent with a caller of get_status
StatusNext == AgentNext \/ GetStatus

SpecStatus == AgentInit /\ [][StatusNext]_vars

(***************************************************************************)
(* Properties.                                                             *)
(***************************************************************************)
\* a nullable number with null read as 0
OrZero(x) == IF x = PyNone THEN 0 ELSE x.n

Min(a, b) == IF a < b THEN a ELSE b

\* how often x occurs in s
Count(s, x) == Cardinality({k \in 1..Len(s) : s[k] = x})

Range(s) == {s[k] : k \in 1..Len(s)}

HasUnknownSource == \E k \in 1..Len(sources) : sources[k] \notin KnownSources

\* the markets of the adapter calls that returned, in call order
RECURSIVE ReturnedMarkets(_)
ReturnedMarkets(log) ==
    IF log = <<>> THEN <<>>
    ELSE ReturnedMarkets(SubSeq(log, 1, Len(log) - 1))
         \o (IF log[Len(log)].state = "ok" THEN log[Len(log)].markets
             ELSE <<>>)

\* C1: a source whose fetch fails contributes no market, not even the ones
\* its adapter had built before it raised, and the loop goes on to the next
\* source: the list
\* the loop leaves is exactly what the adapters that returned gave, in call
\* order, that list is what filter/sort/truncate work on, and without a
\* filter and a top_n all of it is returned.
C1_FailedSourceContributesNothing ==
    /\ pc \in {"loop", "wait"} => all_markets = ReturnedMarkets(fetch_log)
    /\ pc = "loop" => \A k \in 1..Len(fetch_log) : fetch_log[k].i < idx
    /\ pc = "done" =>
         /\ h_concat = ReturnedMarkets(fetch_log)
         /\ (min_liquidity = PyNone /\ top_n = PyNone =>
               \A m \in Range(h_concat) :
                   Count(all_markets, m) = Count(h_concat, m))

\* a call in which the second of three sources failed after building a
\* Market, and the sources before and after it are both in the result
C1_Witness ==
    /\ pc = "done"
    /\ Len(fetch_log) = 3
    /\ fetch_log[1].state = "ok" /\ fetch_log[1].markets # <<>>
    /\ fetch_log[2].state = "failed" /\ fetch_log[2].markets # <<>>
    /\ fetch_log[3].state = "ok" /\ fetch_log[3].markets # <<>>
    /\ Len(all_markets) = Len(fetch_log[1].markets) + Len(fetch_log[3].markets)

\* C2: when a requested name is not a known adapter the call raises: it
\* never returns a market list.
C2_UnknownSourceRaises == HasUnknownSource => pc # "done"

\* C3: when a requested name is unknown, no fetch is made for any source
\* before the error is signalled.
C3_NoFetchBeforeUnknownSourceError ==
    (HasUnknownSource /\ fetch_log # <<>>) =>
        \E k \in 1..Len(stderr) : stderr[k].src \notin KnownSources

\* C4: with min_liquidity given, the filter drops exactly the markets whose
\* liquidity (null read as 0) is below the threshold and keeps the others,
\* as often as they occur; without it nothing is dropped.  Every returned
\* market passes, and with no top_n every passing market is returned.
C4_LiquidityFilter ==
    pc = "done" =>
        IF min_liquidity = PyNone THEN h_filtered = h_concat
        ELSE /\ \A m \in Range(h_concat) :
                   Count(h_filtered, m) =
                       IF OrZero(m.liquidity) >= min_liquidity.n
                       THEN Count(h_concat, m) ELSE 0
             /\ \A m \in Range(h_filtered) : m \in Range(h_concat)
             /\ \A m \in Range(all_markets) :
                   OrZero(m.liquidity) >= min_liquidity.n
             /\ top_n = PyNone =>
                   \A m \in Range(h_filtered) :
                       Count(all_markets, m) = Count(h_filtered, m)

\* threshold 2 on a null, a lower and an equal liquidity: only the equal
\* one is kept
C4_Witness ==
    /\ pc = "done"
    /\ min_liquidity = PyNum(2)
    /\ Len(h_concat) = 3
    /\ h_concat[1].liquidity = PyNone
    /\ h_concat[2].liquidity = PyNum(1)
    /\ h_concat[3].liquidity = PyNum(2)
    /\ h_filtered = <<h_concat[3]>>

\* the markets of s whose sort key is key, in the order they have in s
WithVolume(s, key) == SelectSeq(s, LAMBDA m : OrZero(m.volume_24h) = key)

NonIncreasing(s) ==
    \A i, j \in 1..Len(s) :
        i < j => OrZero(s[i].volume_24h) >= OrZero(s[j].volume_24h)

\* C5: the sorted list is in descending volume order (null read as 0) and
\* markets of equal volume keep the order they had before the sort, whatever
\* their source; the returned list is in descending order too.
C5_StableVolumeSort ==
    pc = "done" =>
        /\ NonIncreasing(h_sorted)
        /\ Len(h_sorted) = Len(h_filtered)
        /\ \A m \in Range(h_filtered) :
               WithVolume(h_sorted, OrZero(m.volume_24h))
                   = WithVolume(h_filtered, OrZero(m.volume_24h))
        /\ NonIncreasing(all_markets)
        /\ top_n = PyNone => all_markets = h_sorted

\* a polymarket market of null volume stays before a manifold market of
\* volume 0 while a market of volume 2 moves in front of both
C5_Witness ==
    /\ pc = "done"
    /\ Len(h_filtered) = 3
    /\ h_filtered[1].source = PyStr("polymarket")
    /\ h_filtered[1].volume_24h = PyNone
    /\ h_filtered[2].source = PyStr("manifold")
    /\ h_filtered[2].volume_24h = PyNum(0)
    /\ h_filtered[3].volume_24h = PyNum(2)
    /\ h_sorted = <<h_filtered[3], h_filtered[1], h_filtered[2]>>

\* C6: with top_n given, the returned list is the first top_n entries of the
\* sorted list (all of it when it is shorter), so it never has more than
\* top_n entries.
C6_TopNTruncation ==
    (pc = "done" /\ top_n # PyNone) =>
        /\ all_markets = SubSeq(h_sorted, 1, Min(top_n.n, Len(h_sorted)))
        /\ Len(all_markets) <= (IF top_n.n > 0 THEN top_n.n ELSE 0)

\* C7: each failed fetch writes exactly one diagnostic line naming its
\* source, and a fetch that succeeded writes none: for every known source,
\* the lines naming it are as many as its failed fetches.
C7_OneDiagnosticPerFailedFetch ==
    \A s \in KnownSources :
        Cardinality({k \in 1..Len(stderr) : stderr[k].src = s})
            = Cardinality({k \in 1..Len(fetch_log) :
                             fetch_log[k].src = s
                             /\ fetch_log[k].state = "failed"})

\* one source requested twice, failing once and succeeding once: one line
C7_Witness ==
    /\ pc = "done"
    /\ Len(fetch_log) = 2
    /\ fetch_log[1].src = fetch_log[2].src
    /\ fetch_log[1].state = "failed"
    /\ fetch_log[2].state = "ok"
    /\ Len(stderr) = 1

\* C8: adapters are called one at a time and in request order: a call
\* starts only when every earlier call has returned, calls follow the
\* positions of the request in increasing order (so no entry is fetched
\* twice and a failed fetch is not retried), and when the call returns
\* every known entry of the request has been fetched exactly once.
C8_SequentialFetchOncePerEntry ==
    /\ \A k \in 1..Len(fetch_log) :
           /\ fetch_log[k].state = "pending" => k = Len(fetch_log)
           /\ fetch_log[k].src = sources[fetch_log[k].i]
    /\ \A j, k \in 1..Len(fetch_log) :
           j < k => fetch_log[j].i < fetch_log[k].i
    /\ pc = "done" =>
           {fetch_log[k].i : k \in 1..Len(fetch_log)}
               = {i \in 1..Len(sources) : sources[i] \in KnownSources}

\* three fetches of the same source, the second one failed
C8_Witness ==
    /\ pc = "done"
    /\ Len(fetch_log) = 3
    /\ sources = <<"manifold", "manifold", "manifold">>
    /\ fetch_log[2].state = "failed"
    /\ fetch_log[3].state = "ok"

\* the records of a well-shaped response: the list itself for Manifold, the
\* list or the list under "events" for Polymarket
Records(c) ==
    IF c.fn = "fetch_manifold" THEN c.arg.items
    ELSE IF c.arg.t = "list" THEN c.arg.items ELSE c.arg.f.events.items

WellShaped(c) ==
    /\ c.fn \in {"fetch_manifold", "fetch_polymarket"}
    /\ c.arg # Raised
    /\ \/ c.arg.t = "list"
       \/ /\ c.fn = "fetch_polymarket"
          /\ c.arg.t = "dict"
          /\ "events" \in DOMAIN c.arg.f
          /\ c.arg.f.events.t = "list"

\* what the adapter makes of one record on its own
Mapped(c, r) ==
    IF c.fn = "fetch_manifold" THEN ManifoldMarket(r) ELSE PolymarketMarket(r)

\* C9: one record of a batch that cannot be mapped never fails the whole
\* call: in a batch with one such record and at least one record that can
\* be mapped, the call returns and every record that can be mapped is
\* emitted.
C9_BadRecordNeverFailsFetch ==
    (/\ ret # NoReturn
     /\ WellShaped(call)
     /\ Cardinality({k \in 1..Len(Records(call)) :
                       Mapped(call, Records(call)[k]) = Raised}) = 1
     /\ \E k \in 1..Len(Records(call)) :
            Mapped(call, Records(call)[k]) \notin {Raised, Skip}) =>
        /\ ret.ok
        /\ \A k \in 1..Len(Records(call)) :
               Mapped(call, Records(call)[k]) \notin {Raised, Skip} =>
                   Mapped(call, Records(call)[k]) \in Range(ret.markets)

\* a field of a bundled market, null when missing
Field(m, key) == IF key \in DOMAIN m.f THEN m.f[key] ELSE PyNone

\* the volume field of a bundled market, a missing or null one read as 0
SubVolume(m) == OrZero(Field(m, "volume"))

\* the first of the markets of highest volume
FirstHighest(ms) ==
    CHOOSE j \in 1..Len(ms) :
        /\ \A k \in 1..Len(ms) : SubVolume(ms[k]) <= SubVolume(ms[j])
        /\ \A k \in 1..(j - 1) : SubVolume(ms[k]) < SubVolume(ms[j])

\* C10: the Market an event gives is built from the market of highest
\* volume among those the event bundles, the first of them when several
\* share the highest volume: it has that market's id, volume and liquidity.
C10_HighestVolumeMarketSelected ==
    (ret # NoReturn /\ ret \notin {Raised, Skip}) =>
        LET ms == call.arg.f.markets.items
            b  == ms[FirstHighest(ms)]
        IN  /\ ret.id = Field(b, "id")
            /\ ret.volume_24h = Field(b, "volume")
            /\ ret.liquidity = Field(b, "liquidity")

\* three markets, the last two sharing the highest volume: the second is
\* selected
C10_Witness ==
    /\ ret # NoReturn /\ ret \notin {Raised, Skip}
    /\ Len(call.arg.f.markets.items) = 3
    /\ Field(call.arg.f.markets.items[1], "volume") = PyNum(1)
    /\ Field(call.arg.f.markets.items[2], "volume") = PyNum(2)
    /\ Field(call.arg.f.markets.items[3], "volume") = PyNum(2)
    /\ ret.id = IdAt(2)

\* a bundled market that is an object whose volume and liquidity are each
\* missing, null or a number
PlainSubMarket(m) ==
    /\ m.t = "dict"
    /\ Field(m, "volume").t \in {"none", "num"}
    /\ Field(m, "liquidity").t \in {"none", "num"}

\* C11: an event whose markets list is non-empty gives exactly one Market,
\* whatever the volumes and contents of the markets it bundles, and an event
\* with no markets gives none and does not raise.  Stated here for events
\* whose bundled markets are all objects with null or numeric volume and
\* liquidity.
C11_OneMarketPerNonEmptyEvent ==
    (/\ ret # NoReturn
     /\ call.fn = "event"
     /\ \A k \in 1..Len(call.arg.f.markets.items) :
            PlainSubMarket(call.arg.f.markets.items[k])) =>
        IF call.arg.f.markets.items = <<>> THEN ret = Skip
        ELSE ret \notin {Raised, Skip}

\* C12: a fetch fails, instead of returning a Market list, whenever the
\* parsed response body does not have the expected top-level shape: a list
\* for fetch_manifold, a list or an object holding a list under "events" for
\* fetch_polymarket.
C12_UnexpectedShapeFails ==
    (/\ ret # NoReturn
     /\ call.fn \in {"fetch_manifold", "fetch_polymarket"}
     /\ call.arg # Raised
     /\ ~WellShaped(call)) =>
        ~ret.ok

\* C13: in the list one aggregate_markets call returns, no two Markets have
\* the same (source, id) pair, for every request made of known source names
\* (the lists --sources accepts) and every upstream response.
C13_UniqueSourceIdPairs ==
    (pc = "done" /\ ~HasUnknownSource) =>
        \A i, j \in 1..Len(all_markets) :
            i # j => <<all_markets[i].source, all_markets[i].id>>
                         # <<all_markets[j].source, all_markets[j].id>>

\* C14: _to_iso is total: on every value (null, the empty string, any
\* string, any number, any other value) it returns null or a string and
\* never raises; null and the empty string give null, and so does a string
\* that does not parse as ISO-8601.
C14_ToIsoTotal ==
    (call.fn = "_to_iso" /\ ret # NoReturn) =>
        /\ ret # Raised
        /\ ret.t \in {"none", "str"}
        /\ call.arg \in {PyNone, PyStr("")} => ret = PyNone
        /\ (call.arg.t = "str" /\ FromIsoFormat(ReplaceZ(call.arg.s)) = Raised)
               => ret = PyNone

\* a string that is no timestamp has been given null
C14_Witness ==
    /\ call.fn = "_to_iso"
    /\ call.arg = PyStr("abc")
    /\ ret = PyNone

\* the canonical form YYYY-MM-DDTHH:MM:SSZ
Canonical(s) ==
    /\ Len(s) = 20
    /\ AllDigits(SubSeq(s, 1, 4)) /\ SubSeq(s, 5, 5) = "-"
    /\ AllDigits(SubSeq(s, 6, 7)) /\ SubSeq(s, 8, 8) = "-"
    /\ AllDigits(SubSeq(s, 9, 10)) /\ SubSeq(s, 11, 11) = "T"
    /\ AllDigits(SubSeq(s, 12, 13)) /\ SubSeq(s, 14, 14) = ":"
    /\ AllDigits(SubSeq(s, 15, 16)) /\ SubSeq(s, 17, 17) = ":"
    /\ AllDigits(SubSeq(s, 18, 19)) /\ SubSeq(s, 20, 20) = "Z"

\* C15: on every number, 0 included, _to_iso returns the UTC time of that
\* many milliseconds after the epoch in the canonical form
\* YYYY-MM-DDTHH:MM:SSZ (four-digit year, two digits for the other fields),
\* or null when the value is out of range or invalid: never a string of
\* another shape.
C15_NumberGivesCanonicalOrNull ==
    (call.fn = "_to_iso" /\ call.arg.t \in {"num", "float"} /\ ret # NoReturn)
        => \/ ret = PyNone
           \/ ret.t = "str" /\ Canonical(ret.s)

\* C16: every Market an adapter builds has implied_odds equal to
\* probability, both null or both the same number; the aggregation passes
\* the Markets on as they are, so the same holds of every Market it returns.
C16_ImpliedOddsEqualsProbability ==
    /\ (ret # NoReturn /\ call.fn \in {"fetch_manifold", "fetch_polymarket"})
           => \A m \in Range(ret.markets) : m.implied_odds = m.probability
    /\ \A m \in Range(all_markets) : m.implied_odds = m.probability

\* a fetch that returned a Market with a probability and one without
C16_Witness ==
    /\ ret # NoReturn
    /\ call.fn \in {"fetch_manifold", "fetch_polymarket"}
    /\ ret.ok
    /\ \E m \in Range(ret.markets) :
           m.probability = PyNone /\ m.implied_odds = PyNone
    /\ \E m \in Range(ret.markets) :
           m.probability # PyNone /\ m.implied_odds = m.probability

\* the number a price stands for, written as a number or as a string
PriceNumber(x) == IF x.t = "num" THEN x.n ELSE NumericStr[x.s]

\* C17: the Market an event gives has as probability the first element of
\* the price list of the selected market when that list is present and not
\* empty, and null otherwise; its outcome_type is "binary" exactly when the
\* price list has two elements and "multi" in every other case, a missing or
\* empty price list included.
C17_ProbabilityAndOutcomeTypeFromPrices ==
    (call.fn = "event" /\ ret # NoReturn /\ ret \notin {Raised, Skip}) =>
        LET ms == call.arg.f.markets.items
            pl == Field(ms[FirstHighest(ms)], "prices")
        IN  /\ ret.probability =
                   IF pl.t = "list" /\ pl.items # <<>>
                   THEN PyNum(PriceNumber(pl.items[1])) ELSE PyNone
            /\ ret.outcome_type =
                   IF pl.t = "list" /\ Len(pl.items) = 2
                   THEN PyStr("binary") ELSE PyStr("multi")

\* a selected market with three prices: the first is the probability and
\* the outcome type is "multi"
C17_Witness ==
    /\ call.fn = "event" /\ ret # NoReturn /\ ret \notin {Raised, Skip}
    /\ Len(call.arg.f.markets.items) = 2
    /\ Field(call.arg.f.markets.items[2], "prices")
           = PyList(<<PyNum(50), PyNum(30), PyNum(20)>>)
    /\ ret.id = IdAt(2)
    /\ ret.probability = PyNum(50)
    /\ ret.outcome_type = PyStr("multi")

\* the records of a Manifold response that the adapter can map
MappableRecords(items) == SelectSeq(items, LAMBDA r : ManifoldMarket(r) # Raised)

\* C18: fetch_manifold gives one Market for every record of the response
\* list, in the order of the list; the probability is the record's for a
\* record whose type marker is BINARY and null for every other record, and
\* those other records are emitted all the same, with the lower-cased
\* marker as outcome_type.  Stated here of the records that can be mapped,
\* for a response holding such a record whose marker is not BINARY.
C18_OneMarketPerManifoldRecord ==
    (/\ call.fn = "fetch_manifold" /\ ret # NoReturn /\ call.arg.t = "list"
     /\ \E k \in 1..Len(MappableRecords(call.arg.items)) :
            Field(MappableRecords(call.arg.items)[k], "outcomeType")
                = PyStr("MULTIPLE_CHOICE")) =>
        LET good == MappableRecords(call.arg.items)
        IN  /\ ret.ok
            /\ Len(ret.markets) = Len(good)
            /\ \A k \in 1..Len(good) :
                   LET ot == Field(good[k], "outcomeType")
                   IN  /\ ret.markets[k].id = Field(good[k], "id")
                       /\ ret.markets[k].probability =
                              IF ot = PyStr("BINARY")
                              THEN Field(good[k], "probability") ELSE PyNone
                       /\ ot # PyNone =>
                              ret.markets[k].outcome_type
                                  = PyStr(LowerTable[ot.s])

\* C19: filtering, sorting and truncation leave every field of every Market
\* as the adapter produced it: each list they give holds only Markets of
\* the list they were given, none more often than it was there, so a Market
\* whose volume_24h or liquidity is null is returned with that field still
\* null (0 stands in for it in the sort key and the filter test only).
C19_RankingLeavesMarketsUnchanged ==
    pc = "done" =>
        /\ \A m \in Range(h_filtered) :
               Count(h_filtered, m) <= Count(h_concat, m)
        /\ \A m \in Range(h_sorted) :
               Count(h_sorted, m) <= Count(h_filtered, m)
        /\ \A m \in Range(all_markets) :
               /\ Count(all_markets, m) <= Count(h_sorted, m)
               /\ Count(all_markets, m) <= Count(h_concat, m)

\* three Markets filtered with threshold 0, reordered by the sort and cut to
\* two: a Market with null volume and null liquidity is among the two
C19_Witness ==
    /\ pc = "done"
    /\ min_liquidity = PyNum(0)
    /\ top_n = PyNum(2)
    /\ Len(h_concat) = 3
    /\ Len(all_markets) = 2
    /\ all_markets[1] # h_concat[1]
    /\ \E k \in 1..2 :
           /\ all_markets[k].volume_24h = PyNone
           /\ all_markets[k].liquidity = PyNone

\* C20: aggregating zero sources makes no fetch and is not an error (no
\* diagnostic is written), it returns an empty list of Markets, and the
\* snapshot built from it has count 0 and no markets.
C20_ZeroSourcesEmptySnapshot ==
    sources = <<>> =>
        /\ fetch_log = <<>>
        /\ stderr = <<>>
        /\ pc \in {"loop", "done"}
        /\ pc = "done" => all_markets = <<>>
        /\ payload.built =>
               /\ payload.count = 0
               /\ payload.markets = <<>>
               /\ payload.sources = <<>>

\* the call with no sources returned and its snapshot was built
C20_Witness ==
    /\ sources = <<>>
    /\ pc = "done"
    /\ all_markets = <<>>
    /\ payload.built
    /\ payload.count = 0

\* the text that reached the destination main was asked to write to, if a
\* whole text did
Emitted ==
    IF args_out = "-" THEN stdout ELSE file

\* C21: in every snapshot emitted, count is the number of entries of
\* markets, markets is the list aggregate_markets returned, in its order,
\* and sources is the list of sources as requested, the sources whose fetch
\* failed included.
C21_SnapshotMatchesResult ==
    Emitted.state = "written" =>
        LET p == Emitted.text.json
        IN  /\ p = payload
            /\ p.count = Len(p.markets)
            /\ Len(p.markets) = Len(all_markets)
            /\ \A k \in 1..Len(all_markets) : p.markets[k] = PyDict(all_markets[k])
            /\ p.sources = sources

\* a snapshot written to the file after the first of two sources failed and
\* the second gave two markets
C21_Witness ==
    /\ args_out # "-"
    /\ file.state = "written"
    /\ Len(sources) = 2
    /\ Len(fetch_log) = 2
    /\ fetch_log[1].state = "failed"
    /\ fetch_log[2].state = "ok"
    /\ file.text.json.count = 2
    /\ file.text.json.sources = sources

\* the whole snapshot reached the destination main was asked to write to
EmissionSucceeded == Emitted.state = "written"

\* C22: the exit code of a run is 0 exactly when the emission succeeded,
\* whether or not sources failed to fetch, and it is 1 when the emitter
\* failed to write to the destination asked for (the aggregation step never
\* raises out of aggregate_markets).
C22_ExitCodeTellsEmission ==
    exit_code # PyNone =>
        /\ exit_code = PyNum(0) <=> EmissionSucceeded
        /\ ~EmissionSucceeded => exit_code = PyNum(1)

\* the file is as it was before the run
FileUntouched == file \in {Absent, OldContents}

\* C23: writing the snapshot is all-or-nothing: the file is not opened
\* before the snapshot is serialized, and a run that ends in an error leaves
\* the file as it was, neither cut nor partly written.
C23_WriteAllOrNothing ==
    /\ mpc \in {"aggregate", "text"} => FileUntouched
    /\ (exit_code # PyNone /\ exit_code # PyNum(0)) => FileUntouched

\* the health call returns normally on this outcome of GET /health: the
\* request went through, the status is no error status, and the body is
\* empty or a JSON object
HealthReturns(o) ==
    /\ o.t = "response"
    /\ o.status < 400
    /\ \/ o.text.empty
       \/ o.text.parses /\ o.text.value.t = "dict"

\* C24: ping never raises: it returns True when the health call returns
\* normally and False when the health call raises.
C24_PingNeverRaises ==
    (call.fn = "ping" /\ ret # NoReturn) =>
        /\ ret # Raised
        /\ ret \in {PyBool(TRUE), PyBool(FALSE)}
        /\ ret = PyBool(TRUE) <=> HealthReturns(call.arg)
        /\ ret = PyBool(FALSE) <=> health(call.arg) = Raised

\* the node answered 503 and ping returned False
C24_Witness ==
    /\ call.fn = "ping"
    /\ call.arg.t = "response"
    /\ call.arg.status = 503
    /\ ret = PyBool(FALSE)


\* the markets of the concatenation that pass the liquidity threshold, in
\* concatenation order
Passing ==
    SelectSeq(h_concat,
              LAMBDA m : OrZero(m.liquidity) >= OrZero(min_liquidity))

\* C25: the steps apply in the order concatenate, filter, sort, truncate:
\* with both min_liquidity and top_n given, the returned list is the top_n
\* highest-volume markets among those that pass the filter.  Every returned
\* market passes, the list has top_n entries (all the passing markets when
\* they are fewer), it is in descending volume order, and a passing market
\* that is left out has no more volume than any returned one.
C25_FilterThenSortThenTruncate ==
    (pc = "done" /\ min_liquidity # PyNone /\ top_n # PyNone) =>
        /\ \A m \in Range(all_markets) :
               OrZero(m.liquidity) >= min_liquidity.n
        /\ Len(all_markets) =
               Min(IF top_n.n > 0 THEN top_n.n ELSE 0, Len(Passing))
        /\ NonIncreasing(all_markets)
        /\ \A m \in Range(Passing) :
               /\ Count(all_markets, m) <= Count(Passing, m)
               /\ Count(all_markets, m) < Count(Passing, m) =>
                      \A r \in Range(all_markets) :
                          OrZero(r.volume_24h) >= OrZero(m.volume_24h)


\* t comes before u in the order of the queue: a higher priority, or the
\* same priority and created earlier (references count up with creation)
Before(t, u) ==
    \/ tasks[t].priority > tasks[u].priority
    \/ tasks[t].priority = tasks[u].priority /\ t < u

QueueOrdered ==
    \A i, j \in 1..Len(task_queue) :
        i < j => Before(task_queue[i], task_queue[j])

\* the run_loop call c takes a task from the queue in this step
Takes(c) ==
    /\ run_loops'[c].pc = "sleep"
    /\ run_loops'[c] # run_loops[c]

\* C26: the queue is always in descending priority order, tasks of equal
\* priority in the order they were added; and the task a run_loop call
\* takes is the first of the queue in that order: of the highest priority
\* there, and the earliest added among those.
C26_QueueOrderAndHeadTaken ==
    /\ []QueueOrdered
    /\ [][\A c \in 1..MaxLoops :
              Takes(c) =>
                  /\ run_loops'[c].task \in Range(task_queue)
                  /\ \A u \in Range(task_queue) \ {run_loops'[c].task} :
                         Before(run_loops'[c].task, u)]_vars

\* a task of priority 0 is added, then two of priority 1: the queue holds
\* the second and third before the first, and run_loop takes the second
C26_Witness ==
    /\ Len(tasks) = 3
    /\ tasks[1].priority = 0
    /\ tasks[2].priority = 1
    /\ tasks[3].priority = 1
    /\ \E c \in 1..MaxLoops :
           /\ run_loops[c].pc = "sleep"
           /\ run_loops[c].task = 2
    /\ task_queue = <<3, 1>>


\* the run_loop call c returns in this step
Returns(c) ==
    /\ run_loops[c].pc # "returned"
    /\ run_loops'[c].pc = "returned"

\* what a returning call leaves: it executed the first n tasks of the queue
\* it found, n the smaller of max_tasks and the length of that queue, and
\* the others are in the queue, in the same order, PENDING
ExecutedMin(c) ==
    LET found == h_calls'[c].queue
        n     == Min(run_loops'[c].max_tasks, Len(found))
    IN  /\ run_loops'[c].count = n
        /\ executed_tasks' = h_calls'[c].executed \o SubSeq(found, 1, n)
        /\ task_queue' = SubSeq(found, n + 1, Len(found))
        /\ \A t \in Range(task_queue') : tasks'[t].status = PENDING

\* a call that sleeps ends: it returns, or the exception that cancels it
\* leaves it
Terminates ==
    \A c \in 1..MaxLoops :
        (run_loops[c].pc = "sleep") ~>
            (run_loops[c].pc \in {"returned", "cancelled"})

\* C27 as stated: run_loop terminates, and a call during which no task is
\* added executes exactly min(max_tasks, number of queued tasks) tasks and
\* leaves the others in the queue, in unchanged order, PENDING.
C27_RunLoopExecutesMin ==
    /\ Terminates
    /\ [][\A c \in 1..MaxLoops :
              (Returns(c) /\ ~h_calls'[c].added) => ExecutedMin(c)]_vars

\* C27, amended: run_loop terminates, and a call that returns, during which
\* no task is added and no other run_loop call of the agent is in progress,
\* executes exactly min(max_tasks, number of queued tasks) tasks and leaves
\* the others in the queue, in unchanged order, PENDING.
C27_RunLoopAloneExecutesMin ==
    /\ Terminates
    /\ [][\A c \in 1..MaxLoops :
              (Returns(c) /\ ~h_calls'[c].added /\ ~h_calls'[c].shared)
                  => ExecutedMin(c)]_vars

\* a call with max_tasks 1 found two tasks, ran alone and returned: it
\* executed the first and the second is in the queue
C27_Witness ==
    \E c \in 1..MaxLoops :
        /\ run_loops[c].pc = "returned"
        /\ run_loops[c].max_tasks = 1
        /\ run_loops[c].count = 1
        /\ ~h_calls[c].added
        /\ ~h_calls[c].shared
        /\ Len(h_calls[c].queue) = 2
        /\ task_queue = <<h_calls[c].queue[2]>>
        /\ Len(executed_tasks) = 1


\* C28: task ids are unique: whatever add_task and run_loop calls were made
\* on the agent, no two of the tasks created so far, queued or executed,
\* have the same id.
C28_TaskIdsUnique ==
    \A t, u \in 1..Len(tasks) : t # u => tasks[t].id # tasks[u].id


\* the run_loop calls that hold task t between taking it and the end of its
\* execution
Holders(t) ==
    {c \in 1..MaxLoops : run_loops[c].pc = "sleep" /\ run_loops[c].task = t}

\* task t exists and its status is one of S
HasStatus(t, S) == IF t <= Len(tasks) THEN tasks[t].status \in S ELSE FALSE

\* the status of a task moves from PENDING to RUNNING and from RUNNING to
\* COMPLETED or FAILED only
StatusSteps ==
    \A t \in 1..Len(tasks) :
        tasks'[t].status # tasks[t].status =>
            \/ tasks[t].status = PENDING /\ tasks'[t].status = RUNNING
            \/ tasks[t].status = RUNNING
                   /\ tasks'[t].status \in {COMPLETED, FAILED}

\* C29: a task that run_loop takes goes from PENDING to RUNNING and then to
\* COMPLETED or FAILED; once its execution is over it is in executed_tasks
\* exactly once, with one of these two statuses, and it is not in the queue;
\* no task is held by two run_loop calls or taken again after it was
\* executed, however the calls interleave.
C29_TakenTaskExecutedOnce ==
    /\ [][StatusSteps]_vars
    /\ [](\A t \in 1..Len(tasks) :
              /\ Count(executed_tasks, t) <= 1
              /\ Cardinality(Holders(t)) <= 1
              /\ tasks[t].status = PENDING <=> Count(task_queue, t) = 1
              /\ tasks[t].status = RUNNING <=> Cardinality(Holders(t)) = 1
              /\ tasks[t].status \in {COMPLETED, FAILED}
                     <=> Count(executed_tasks, t) = 1
              /\ tasks[t].status # PENDING => Count(task_queue, t) = 0)
    /\ \A t \in 1..MaxTasks :
           HasStatus(t, {RUNNING}) ~> HasStatus(t, {COMPLETED, FAILED})


\* C30: get_status accounts for every task: whenever it is called, also
\* while a run_loop call is suspended in the execution of a task, the
\* pending, completed and failed counts it returns add up to the number of
\* tasks added so far.
C30_StatusCountsEveryTask ==
    agent_status.called =>
        agent_status.value.pending_tasks
            + agent_status.value.completed_tasks
            + agent_status.value.failed_tasks = agent_status.h_added

====
